---- MODULE Spec2Model ----
(***************************************************************************)
(* Model of spacy_curated_transformers/models/architectures.py:            *)
(* the tensor boundary converter (_convert_inputs / _convert_outputs and   *)
(* their backward closures), the encoder factory and the model             *)
(* composition glue.                                                       *)
(*                                                                         *)
(* Tensors are modelled symbolically: an element of an encoder output is   *)
(* the record of its coordinates (layer, row, pos) and of the piece id     *)
(* that stood at that position of the padded input, so that every slicing  *)
(* and ordering step of the code is observable in the result.              *)
(***************************************************************************)
EXTENDS Integers, Sequences, FiniteSets, TLC

\* ---------------------------------------------------------------- bounds
MaxBatch == 2          \* largest number of sequences in one batch
MaxModelSeqLen == 2    \* the encoder's max_seq_len / model_max_length
NumHiddenLayers == 1   \* the encoder returns NumHiddenLayers + 1 tensors
MaxWidth == 2          \* hidden_width ranges over 1..MaxWidth

MaxLen == MaxModelSeqLen + 1   \* longest sequence offered (one too long)
NumLayers == NumHiddenLayers + 1

VARIABLES
    model,      \* the wrapped encoder (PyTorchWrapper_v2 / TorchScriptWrapper_v1)
    ops,        \* model.ops: device descriptor
    pc,         \* position inside one forward/backward pass of the wrapper
    X,          \* the batch handed to _convert_inputs
    ci,         \* what _convert_inputs produced
    enc,        \* the encoder's all_outputs for the padded tensor
    co,         \* what _convert_outputs produced
    bo,         \* what convert_for_torch_backward produced
    dYin,       \* the nested gradients handed to convert_for_torch_backward
    bi,         \* what convert_from_torch_backward produced
    built,      \* what build_transformer_or_listener_wrapper_v1 produced
    fw,         \* what transformer_model_forward produced
    bp,         \* what its backprop closure did
    held,       \* a convert_for_torch_backward closure kept from an earlier pass
    hb,         \* what the kept closure produced when it was called
    scaler,     \* what _pytorch_encoder handed to PyTorchGradScaler
    ld          \* what the checkpoint loader's callback did

convVars == <<model, ops, pc, X, ci, enc, co, bo, dYin, bi>>
glueVars == <<built, fw, bp>>
extraVars == <<held, hb, scaler, ld>>
vars == <<model, ops, pc, X, ci, enc, co, bo, dYin, bi, built, fw, bp, held, hb, scaler, ld>>

\* ---------------------------------------------------------------- helpers
SeqsUpTo(S, n) == UNION {[1..k -> S] : k \in 0..n}
\* piece ids and padding_idx: two values, so that a copied id can differ from
\* the padding next to it (padding_idx defaults to 0 or 1 in the constructors)
Ids == {0, 1}
\* every sequence within the limit, and one that is too long (a too long
\* sequence is rejected on its size, its ids are never read)
Sequences1d == SeqsUpTo(Ids, MaxModelSeqLen) \cup {[t \in 1..MaxLen |-> 0]}
Batches == SeqsUpTo(Sequences1d, MaxBatch)
\* batches that differ in their lengths only (the backward closures read
\* nothing but the lengths)
BlankBatches == SeqsUpTo(SeqsUpTo({0}, MaxLen), MaxBatch)
Min(a, b) == IF a < b THEN a ELSE b

\* x.size / x.shape[0] of every sequence of the batch
SizesOf(batch) == [i \in 1..Len(batch) |-> Len(batch[i])]

\* Python's max() over a non-empty collection of sizes
MaxSize(sizes) ==
    CHOOSE m \in {sizes[i] : i \in 1..Len(sizes)} :
        \A i \in 1..Len(sizes) : sizes[i] <= m

\* ------------------------------------------------------- encoder factory
UnsetDim == [set |-> FALSE, value |-> 0]
NoAttr == [present |-> FALSE, value |-> FALSE]

\* _pytorch_encoder: nO is set to hidden_width, the flag starts True
PytorchEncoder(hidden_width, max_seq_len, padding_idx) ==
    [ name |-> "pytorch",
      nO |-> [set |-> TRUE, value |-> hidden_width],
      all_layer_outputs |-> [present |-> TRUE, value |-> TRUE],
      max_model_seq_len |-> max_seq_len,
      padding_idx |-> padding_idx,
      weights |-> 0 ]

\* _torchscript_encoder: only the two converters are passed; the wrapper is
\* created with dims nI/nO unset and without the _all_layer_outputs attribute
TorchscriptEncoder(model_max_length, padding_idx) ==
    [ name |-> "pytorch_script",
      nO |-> UnsetDim,
      all_layer_outputs |-> NoAttr,
      max_model_seq_len |-> model_max_length,
      padding_idx |-> padding_idx,
      weights |-> 0 ]

Encoders ==
    {PytorchEncoder(1, MaxModelSeqLen, p) : p \in Ids}
        \cup {TorchscriptEncoder(MaxModelSeqLen, p) : p \in Ids}

\* ------------------------------------------------------- _convert_inputs
NoTensor == [data |-> <<>>, device |-> "none"]
NoClosure == [made |-> FALSE, X |-> <<>>]
NoCI == [status |-> "none", error |-> "none", compared |-> FALSE,
         allocated |-> FALSE, Xt |-> NoTensor, backward |-> NoClosure]

\* ops.xp.full((len(X), max_seq_len), padding_idx)
Full(rows, cols, fill) == [i \in 1..rows |-> [t \in 1..cols |-> fill]]

\* Xt[i, :span_len] = span, for every i in range(len(X))
CopyRowsOff(buf, batch) ==
    [i \in 1..Len(buf) |->
        [t \in 1..Len(buf[i]) |->
            IF t < Len(batch[i]) THEN batch[i][t] ELSE buf[i][t]]]

CopyRows(buf, batch) ==
    [i \in 1..Len(buf) |->
        [t \in 1..Len(buf[i]) |->
            IF t <= Len(batch[i]) THEN batch[i][t] ELSE buf[i][t]]]

\* xp2torch(Xt, device=cuda:<id>) on gpu, xp2torch(Xt) otherwise
Xp2TorchInput(data, o) ==
    [data |-> data,
     device |-> IF o.device_type = "gpu" THEN "cuda" ELSE "default"]

TooLongLax(max_seq_len, max_model_seq_len) == max_seq_len > max_model_seq_len + 1

\* the comparison of line 724
TooLong(max_seq_len, max_model_seq_len) == max_seq_len > max_model_seq_len

\* lines 724-748: the comparison, the padded buffer, the closure
ConvertInputsNonEmpty(o, batch, max_model_seq_len, padding_idx) ==
    LET max_seq_len == MaxSize(SizesOf(batch)) IN
    IF TooLong(max_seq_len, max_model_seq_len)
    THEN [NoCI EXCEPT !.status = "ValueError",
                      !.error = "sequence_too_long",
                      !.compared = TRUE]
    ELSE [ status |-> "ok",
           error |-> "none",
           compared |-> TRUE,
           allocated |-> TRUE,
           Xt |-> Xp2TorchInput(
                     CopyRows(Full(Len(batch), max_seq_len, padding_idx),
                              batch), o),
           backward |-> [made |-> TRUE, X |-> batch] ]

ConvertInputsDefaultZero(o, batch, max_model_seq_len, padding_idx) ==
    IF Len(batch) = 0
    THEN [ status |-> "ok", error |-> "none", compared |-> TRUE,
           allocated |-> TRUE, Xt |-> Xp2TorchInput(<<>>, o),
           backward |-> [made |-> TRUE, X |-> batch] ]
    ELSE ConvertInputsNonEmpty(o, batch, max_model_seq_len, padding_idx)

ConvertInputs(o, batch, max_model_seq_len, padding_idx) ==
    IF Len(batch) = 0
    THEN \* max() of an empty generator raises ValueError (line 723)
         [NoCI EXCEPT !.status = "ValueError", !.error = "max_of_empty"]
    ELSE ConvertInputsNonEmpty(o, batch, max_model_seq_len, padding_idx)

\* ops.alloc1f(n): a zero-filled float buffer of n entries
Alloc1f(n) == [t \in 1..n |-> 0]

ConvertFromTorchBackwardOne(closure, d_inputs) ==
    [i \in 1..Len(closure.X) |-> Alloc1f(1)]

\* convert_from_torch_backward: d_inputs is ignored
ConvertFromTorchBackward(closure, d_inputs) ==
    [i \in 1..Len(closure.X) |-> Alloc1f(Len(closure.X[i]))]

DInputs == {"no_grad", "grad_a", "grad_b"}

\* ------------------------------------------------ the wrapped encoder
\* CuratedTransformer(encoder) applied to the padded tensor: one tensor per
\* layer (embeddings included), each of shape (batch x seq_len x hidden).
\* The hidden vector at (layer, row, pos) is kept as one symbolic element.
EncoderForward(data) ==
    [k \in 1..NumLayers |->
        [i \in 1..Len(data) |->
            [t \in 1..Len(data[i]) |->
                [layer |-> k, row |-> i, pos |-> t, id |-> data[i][t]]]]]

\* ------------------------------------------------------ _convert_outputs
NoOutClosure == [made |-> FALSE, Yt |-> <<>>]
NoCO == [status |-> "none", outputs |-> <<>>, last_layer_only |-> FALSE,
         backward |-> NoOutClosure]

\* output[i, :len, :] taken from the k-th layer tensor (a slice clamps)
SliceRowWhole(all_outputs, k, i, len) ==
    [kind |-> "torch", layer |-> k, row |-> i, data |-> all_outputs[k][i]]

SliceRow(all_outputs, k, i, len) ==
    [kind |-> "torch", layer |-> k, row |-> i,
     data |-> [t \in 1..Min(len, Len(all_outputs[k][i])) |->
                  all_outputs[k][i][t]]]

\* torch2xp keeps the values and changes the array type
Torch2xp(layer) == [layer EXCEPT !.kind = "xp"]
\* xp2torch on a gradient keeps the values and changes the array type
Xp2Torch(y) == [y EXCEPT !.kind = "torch"]

LastLayerFirst(all_outputs, input_lens) ==
    [i \in 1..Len(input_lens) |-> <<SliceRow(all_outputs, 1, i, input_lens[i])>>]

\* the else branch: [model_outputs.all_outputs[-1][i, :len, :]]
LastLayer(all_outputs, input_lens) ==
    [i \in 1..Len(input_lens) |->
        <<SliceRow(all_outputs, Len(all_outputs), i, input_lens[i])>>]

\* the if branch: [output[i, :len, :] for output in all_outputs]
AllLayers(all_outputs, input_lens) ==
    [i \in 1..Len(input_lens) |->
        [k \in 1..Len(all_outputs) |-> SliceRow(all_outputs, k, i, input_lens[i])]]

ConvertOutputs(m, model_inputs, all_outputs) ==
    IF ~m.all_layer_outputs.present
    THEN \* model.attrs["_all_layer_outputs"] on a missing key
         [NoCO EXCEPT !.status = "KeyError"]
    ELSE LET all_layer_outputs == m.all_layer_outputs.value
             input_lens == SizesOf(model_inputs)
             Yt == IF all_layer_outputs
                   THEN AllLayers(all_outputs, input_lens)
                   ELSE LastLayer(all_outputs, input_lens)
             Y == [i \in 1..Len(Yt) |->
                      [k \in 1..Len(Yt[i]) |-> Torch2xp(Yt[i][k])]]
         IN [ status |-> "ok",
              outputs |-> Y,
              last_layer_only |-> ~all_layer_outputs,
              backward |-> [made |-> TRUE, Yt |-> Yt] ]

\* [y for inner in nested for y in inner]
RECURSIVE Flatten(_)
Flatten(nested) ==
    IF Len(nested) = 0 THEN <<>> ELSE Head(nested) \o Flatten(Tail(nested))

NoBO == [status |-> "none", args |-> <<>>, grad_tensors |-> <<>>]

ConvertForTorchBackwardUnchecked(closure, dY) ==
    LET Yt_flat == Flatten(closure.Yt)
        dY_flat == Flatten(dY)
        dYt_flat == [j \in 1..Len(dY_flat) |-> Xp2Torch(dY_flat[j])]
    IN [status |-> "ok", args |-> Yt_flat, grad_tensors |-> dYt_flat]

\* convert_for_torch_backward
ConvertForTorchBackward(closure, dY) ==
    LET Yt_flat == Flatten(closure.Yt)
        dY_flat == Flatten(dY)
        dYt_flat == [j \in 1..Len(dY_flat) |-> Xp2Torch(dY_flat[j])]
    IN IF Len(Yt_flat) # Len(dYt_flat)
       THEN [NoBO EXCEPT !.status = "AssertionError"]
       ELSE [status |-> "ok", args |-> Yt_flat, grad_tensors |-> dYt_flat]

\* incoming gradients: a nested list; the gradient at dY[d][k] is the one the
\* caller computed for document d, layer entry k
GradShapes == SeqsUpTo(0..(NumLayers + 1), MaxBatch)
GradsOfShape(shape) ==
    [d \in 1..Len(shape) |->
        [k \in 1..shape[d] |-> [kind |-> "xp", doc |-> d, entry |-> k]]]

\* ------------------------------------- one pass through the wrapped encoder
NoBI == [status |-> "none", d_inputs |-> "none", grads |-> <<>>]

\* the parent pipe sets the attribute before a forward pass; the caller can
\* do so whenever control is with it, not inside the wrapper's forward call
SetAllLayerOutputs(b) ==
    /\ pc \in {"idle", "forwarded", "backprop"}
    /\ model' = [model EXCEPT !.all_layer_outputs = [present |-> TRUE, value |-> b]]
    /\ UNCHANGED <<ops, pc, X, ci, enc, co, bo, dYin, bi>>
    /\ UNCHANGED glueVars
    /\ UNCHANGED extraVars

CallConvertInputs(batches) ==
    /\ pc = "idle"
    /\ \E batch \in batches :
        /\ X' = batch
        /\ ci' = ConvertInputs(ops, batch, model.max_model_seq_len,
                               model.padding_idx)
    /\ pc' = IF ci'.status = "ok" THEN "converted" ELSE "done"
    /\ UNCHANGED <<model, ops, enc, co, bo, dYin, bi>>
    /\ UNCHANGED glueVars
    /\ UNCHANGED extraVars

RunEncoder ==
    /\ pc = "converted"
    /\ enc' = EncoderForward(ci.Xt.data)
    /\ pc' = "encoded"
    /\ UNCHANGED <<model, ops, X, ci, co, bo, dYin, bi>>
    /\ UNCHANGED glueVars
    /\ UNCHANGED extraVars

CallConvertOutputs ==
    /\ pc = "encoded"
    /\ co' = ConvertOutputs(model, X, enc)
    /\ pc' = IF co'.status = "ok" THEN "forwarded" ELSE "done"
    /\ UNCHANGED <<model, ops, X, ci, enc, bo, dYin, bi>>
    /\ UNCHANGED glueVars
    /\ UNCHANGED extraVars

CallConvertForTorchBackward ==
    /\ pc = "forwarded"
    /\ \E shape \in GradShapes : dYin' = GradsOfShape(shape)
    /\ bo' = ConvertForTorchBackward(co.backward, dYin')
    /\ pc' = IF bo'.status = "ok" THEN "backprop" ELSE "done"
    /\ UNCHANGED <<model, ops, X, ci, enc, co, bi>>
    /\ UNCHANGED glueVars
    /\ UNCHANGED extraVars

CallConvertFromTorchBackward ==
    /\ pc = "backprop"
    /\ \E d_inputs \in DInputs :
          bi' = [status |-> "ok", d_inputs |-> d_inputs,
                 grads |-> ConvertFromTorchBackward(ci.backward, d_inputs)]
    /\ pc' = "done"
    /\ UNCHANGED <<model, ops, X, ci, enc, co, bo, dYin>>
    /\ UNCHANGED glueVars
    /\ UNCHANGED extraVars

\* the pass is over (it failed, it finished, or the caller drops the
\* closures without calling them): the batch, the padded tensor and the
\* closures of this call are gone, the encoder and its attributes persist
EndPass ==
    /\ pc \in {"done", "forwarded", "backprop"}
    /\ pc' = "idle"
    /\ X' = <<>>
    /\ ci' = NoCI
    /\ enc' = <<>>
    /\ co' = NoCO
    /\ bo' = NoBO
    /\ dYin' = <<>>
    /\ bi' = NoBI
    /\ UNCHANGED <<model, ops>>
    /\ UNCHANGED glueVars
    /\ UNCHANGED extraVars

\* ------------------------------------------------ model composition glue
MaxTrain == 1          \* training updates applied to the encoder's weights

NoComposed == [name |-> "none", nO |-> 0, layers |-> <<>>,
               refs |-> [piece_encoder |-> "none", transformer |-> "none"],
               attrs |-> [replace_listener |-> "none",
                          replace_listener_cfg |-> "none"]]
NoBuilt == [status |-> "none", kind |-> "none", model |-> NoComposed,
            listener |-> "None", listener_cfg |-> "None"]

PieceEncoders == {"piece_encoder_a", "piece_encoder_b"}
SpanExtractors == {"with_spans_a"}
Listeners == {"listener_a", "listener_b"}
ListenerCfgs == {"cfg_a", "cfg_b"}

\* build_transformer_model_v1; `transformer` is the wrapped encoder object,
\* which the composed model refers to (refs["transformer"]) and does not copy.
\* transformer.get_dim("nO") raises ValueError when the dimension is unset.
BuildTransformerModel(with_spans, transformer, piece_encoder) ==
    IF ~transformer.nO.set
    THEN [status |-> "ValueError", model |-> NoComposed]
    ELSE [ status |-> "ok",
           model |-> [ name |-> "transformer_model",
                       nO |-> transformer.nO.value,
                       layers |-> <<[outer |-> "with_non_ws_tokens",
                                     chain |-> <<piece_encoder, with_spans,
                                                 "remove_bos_eos">>,
                                     spans_of |-> "transformer"]>>,
                       refs |-> [piece_encoder |-> piece_encoder,
                                 transformer |-> "transformer"],
                       attrs |-> [replace_listener |->
                                      "replace_listener_callback",
                                  replace_listener_cfg |->
                                      "replace_listener_cfg_callback"] ] ]

\* build_transformer_or_listener_wrapper_v1
BuildTransformerOrListenerWrapper(with_spans, transformer, piece_encoder, wrapped_listener) ==
    LET thinc_transformer ==
            BuildTransformerModel(with_spans, transformer, piece_encoder)
    IN IF thinc_transformer.status # "ok"
       THEN [NoBuilt EXCEPT !.status = thinc_transformer.status]
       ELSE IF wrapped_listener # "None"
            THEN [NoBuilt EXCEPT !.status = "ok",
                                 !.kind = "WrappedTransformerAndListener",
                                 !.model = thinc_transformer.model,
                                 !.listener = wrapped_listener]
            ELSE [NoBuilt EXCEPT !.status = "ok",
                                 !.kind = "transformer_model",
                                 !.model = thinc_transformer.model]

\* model.layers[0](docs, is_train=is_train): the one wrapped sub-stage
Layer0Forward(layer, docs, is_train) ==
    [by |-> layer.outer, docs |-> docs, is_train |-> is_train]

NoFW == [status |-> "none", docs |-> "none", is_train |-> FALSE,
         Y |-> [by |-> "none", docs |-> "none", is_train |-> FALSE]]
NoBP == [status |-> "none", dY |-> "none", layer_calls |-> <<>>,
         layer_ret |-> <<>>, ret |-> <<>>]

\* transformer_model_forward: Y of the sub-stage, and the closure `backprop`
TransformerModelForward(m, docs, is_train) ==
    [NoFW EXCEPT !.status = "ok", !.docs = docs, !.is_train = is_train,
                 !.Y = Layer0Forward(m.layers[1], docs, is_train)]

BackpropPassThrough(dY, layer_ret) ==
    [NoBP EXCEPT !.status = "ok", !.dY = dY, !.layer_calls = <<dY>>,
                 !.layer_ret = layer_ret, !.ret = layer_ret]

\* backprop(dY): backprop_layer(dY), then return []
Backprop(dY, layer_ret) ==
    [NoBP EXCEPT !.status = "ok", !.dY = dY, !.layer_calls = <<dY>>,
                 !.layer_ret = layer_ret, !.ret = <<>>]

DocBatches == {"docs_a", "docs_b"}
UpstreamGrads == {"dY_a", "dY_b"}
LayerGrads == {<<>>, <<"d_pieces">>}

\* one of the five build_*_transformer_model_v1 constructors: the encoder is
\* created by the factory and handed to the shared builder
BuildArchitecture(torchscript, hidden_width, padding_idx, with_spans, piece_encoder, wrapped_listener) ==
    /\ built.status = "none"
    /\ model' = IF torchscript
                THEN TorchscriptEncoder(MaxModelSeqLen, padding_idx)
                ELSE PytorchEncoder(hidden_width, MaxModelSeqLen, padding_idx)
    /\ built' = BuildTransformerOrListenerWrapper(with_spans, model',
                                                  piece_encoder,
                                                  wrapped_listener)
    /\ UNCHANGED <<ops, pc, X, ci, enc, co, bo, dYin, bi, fw, bp>>
    /\ UNCHANGED extraVars

CallForward(docs, is_train) ==
    /\ built.status = "ok"
    /\ fw' = TransformerModelForward(built.model, docs, is_train)
    /\ bp' = NoBP
    /\ UNCHANGED <<built>>
    /\ UNCHANGED convVars
    /\ UNCHANGED extraVars

CallBackprop(dY, layer_ret) ==
    /\ fw.status = "ok"
    /\ bp' = Backprop(dY, layer_ret)
    /\ UNCHANGED <<built, fw>>
    /\ UNCHANGED convVars
    /\ UNCHANGED extraVars

\* a training update changes the encoder's weights
TrainStep ==
    /\ built.status = "ok"
    /\ bp.status = "ok"
    /\ model.weights < MaxTrain
    /\ model' = [model EXCEPT !.weights = @ + 1]
    /\ UNCHANGED <<ops, pc, X, ci, enc, co, bo, dYin, bi>>
    /\ UNCHANGED glueVars
    /\ UNCHANGED extraVars

ReplaceListenerRebuild(b, m, listener) ==
    [b EXCEPT !.kind = "WrappedTransformerAndListener", !.listener = listener,
              !.model = [m EXCEPT !.nO = 0]]

\* the "replace_listener" hook: the listener reference is swapped
ReplaceListenerCallback(b, m, listener) ==
    [b EXCEPT !.kind = "WrappedTransformerAndListener", !.listener = listener]

\* the "replace_listener_cfg" hook: the listener's configuration is swapped
ReplaceListenerCfgCallback(b, cfg) ==
    [b EXCEPT !.listener_cfg = cfg]

ReplaceListener(listener) ==
    /\ built.status = "ok"
    /\ built.model.attrs.replace_listener = "replace_listener_callback"
    /\ built' = ReplaceListenerCallback(built, built.model, listener)
    /\ UNCHANGED <<fw, bp>>
    /\ UNCHANGED convVars
    /\ UNCHANGED extraVars

ReplaceListenerCfg(cfg) ==
    /\ built.status = "ok"
    /\ built.model.attrs.replace_listener_cfg = "replace_listener_cfg_callback"
    /\ built' = ReplaceListenerCfgCallback(built, cfg)
    /\ UNCHANGED <<fw, bp>>
    /\ UNCHANGED convVars
    /\ UNCHANGED extraVars

\* --------------------------------------------- state of the later sections
NoHeld == [made |-> FALSE, Yt |-> <<>>, expected |-> 0]
NoHB == [status |-> "none", args |-> <<>>, grad_tensors |-> <<>>, given |-> 0]
MaxScale == 2          \* numeric gradient-scaler settings range over 1..MaxScale
NumParams == 2         \* parameters of the encoder / entries of a checkpoint

\* a grad_scaler_config mapping: a SimpleFrozenDict or a plain dict, each key
\* present or not
Absent == [has |-> FALSE, value |-> 0]
AbsentFlag == [has |-> FALSE, value |-> FALSE]
EmptyConfig == [frozen |-> FALSE, enabled |-> AbsentFlag, init_scale |-> Absent,
                growth_interval |-> Absent]
NoScaler == [status |-> "none", given |-> EmptyConfig, mixed_precision |-> FALSE,
             kwargs |-> EmptyConfig]
InitialWeights == [k \in 1..NumParams |-> "initial"]
NoCheckpoint == [remap_ok |-> TRUE, entries |-> [k \in 1..NumParams |-> "match"]]
NoLoad == [status |-> "none", error |-> "none", steps |-> <<>>,
           returned |-> FALSE, device |-> "none", weights |-> InitialWeights,
           ckpt |-> NoCheckpoint, target |-> "none", X |-> "None", Y |-> "None"]

Init ==
    /\ model \in Encoders
    /\ ops \in {[device_type |-> "cpu"], [device_type |-> "gpu"]}
    /\ pc = "idle"
    /\ X = <<>>
    /\ ci = NoCI
    /\ enc = <<>>
    /\ co = NoCO
    /\ bo = NoBO
    /\ dYin = <<>>
    /\ bi = NoBI
    /\ built = NoBuilt
    /\ fw = NoFW
    /\ bp = NoBP
    /\ held = NoHeld
    /\ hb = NoHB
    /\ scaler = NoScaler
    /\ ld = NoLoad

\* forward passes (inference): pad, encode, un-pad
Next ==
    \/ \E b \in BOOLEAN : SetAllLayerOutputs(b)
    \/ CallConvertInputs(Batches)
    \/ RunEncoder
    \/ CallConvertOutputs
    \/ EndPass

Spec == Init /\ [][Next]_vars

\* training passes: the forward pass followed by both backward closures
InitBackward ==
    /\ Init
    /\ model.padding_idx = 0

NextBackward ==
    \/ \E b \in BOOLEAN : SetAllLayerOutputs(b)
    \/ CallConvertInputs(BlankBatches)
    \/ RunEncoder
    \/ CallConvertOutputs
    \/ CallConvertForTorchBackward
    \/ CallConvertFromTorchBackward
    \/ EndPass

SpecBackward == InitBackward /\ [][NextBackward]_vars

InitGlue ==
    /\ Init
    /\ model = PytorchEncoder(1, MaxModelSeqLen, 0)
    /\ ops.device_type = "cpu"

NextGlue ==
    \/ \E torchscript \in BOOLEAN, w \in 1..MaxWidth, p \in Ids,
          ws \in SpanExtractors, pe \in PieceEncoders,
          l \in Listeners \cup {"None"} :
            BuildArchitecture(torchscript, w, p, ws, pe, l)
    \/ \E docs \in DocBatches, is_train \in BOOLEAN : CallForward(docs, is_train)
    \/ \E dY \in UpstreamGrads, r \in LayerGrads : CallBackprop(dY, r)
    \/ TrainStep
    \/ \E l \in Listeners : ReplaceListener(l)
    \/ \E c \in ListenerCfgs : ReplaceListenerCfg(c)

SpecGlue == InitGlue /\ [][NextGlue]_vars

\* ====================================================== claims C1 .. C10
ConvertInputsCalled == ci.status # "none"
AllWithinLimit == \A i \in 1..Len(X) : Len(X[i]) <= model.max_model_seq_len
SomeTooLong == \E i \in 1..Len(X) : Len(X[i]) > model.max_model_seq_len

\* the padded tensor the claim describes: N rows of max(lengths) entries, row
\* i starting with X[i] and continuing with padding_idx
PaddedAsClaimed ==
    /\ ci.status = "ok"
    /\ Len(ci.Xt.data) = Len(X)
    /\ \A i \in 1..Len(X) :
        /\ \A j \in 1..Len(X) : Len(X[j]) <= Len(ci.Xt.data[i])
        /\ \E j \in 1..Len(X) : Len(X[j]) = Len(ci.Xt.data[i])
        /\ \A t \in 1..Len(ci.Xt.data[i]) :
              ci.Xt.data[i][t] = IF t <= Len(X[i]) THEN X[i][t]
                                 ELSE model.padding_idx

\* C1 as stated: every batch whose lengths are all within max_model_seq_len
\* (the empty batch included) is converted to the padded tensor.
C1_AsStated == (ConvertInputsCalled /\ AllWithinLimit) => PaddedAsClaimed

\* C1 amended: every NON-EMPTY batch whose lengths are all <= max_model_seq_len
\* is converted to a tensor of shape (N x max(lengths)); row i starts with
\* X[i] in order and is padding_idx afterwards; a sequence of exactly
\* max_model_seq_len entries is accepted.
C1_PaddedNonEmpty ==
    (ConvertInputsCalled /\ Len(X) > 0 /\ AllWithinLimit) => PaddedAsClaimed

\* a batch with a row of exactly max_model_seq_len entries and a shorter,
\* padded row whose ids differ from padding_idx has been converted
C1_Witness ==
    /\ ci.status = "ok"
    /\ Len(X) = 2
    /\ Len(X[1]) = 1
    /\ X[1][1] # model.padding_idx
    /\ Len(X[2]) = model.max_model_seq_len
    /\ ci.Xt.data[1][2] = model.padding_idx

\* C2: a batch holding a sequence longer than max_model_seq_len is rejected
\* with the sequence-too-long ValueError before anything is allocated: no
\* padded tensor, no device transfer, no backward closure, no encoder run.
C2_TooLongRejected ==
    (ConvertInputsCalled /\ SomeTooLong) =>
        /\ ci.status = "ValueError"
        /\ ci.error = "sequence_too_long"
        /\ ~ci.allocated
        /\ ci.Xt = NoTensor
        /\ ~ci.backward.made
        /\ pc = "done"
        /\ enc = <<>>

\* the oversized sequence sits next to an acceptable one
C2_Witness ==
    /\ ci.status = "ValueError"
    /\ Len(X) = 2
    /\ Len(X[1]) = 1
    /\ Len(X[2]) = model.max_model_seq_len + 1

\* the layer tensor a returned entry was cut from
SelectedLayer(result, k) == IF result.last_layer_only THEN Len(enc) ELSE k

OutputsAsClaimed(result) ==
    /\ result.status = "ok"
    /\ Len(result.outputs) = Len(X)
    /\ \A i \in 1..Len(X) :
        /\ Len(result.outputs[i]) = IF result.last_layer_only THEN 1 ELSE Len(enc)
        /\ \A k \in 1..Len(result.outputs[i]) :
            LET y == result.outputs[i][k] IN
            /\ y.kind = "xp"
            /\ Len(y.data) = Len(X[i])
            /\ \A t \in 1..Len(y.data) :
                /\ y.data[t] = enc[SelectedLayer(result, k)][i][t]
                /\ y.data[t].pos <= Len(X[i])
                /\ y.data[t].row = i

\* C3: whenever _convert_outputs runs on a model that carries the flag, it
\* returns exactly N per-document lists in input order; entry k of document i
\* is row i of the k-th selected layer cut to its first length[i] timesteps,
\* so no padded position is returned.
C3_Unpadded ==
    [][(pc = "encoded" /\ pc' # "encoded" /\ model.all_layer_outputs.present)
          => OutputsAsClaimed(co')]_vars

\* a padded row (shorter than the batch's longest) has been un-padded
C3_Witness ==
    /\ co.status = "ok"
    /\ Len(X) = 2
    /\ Len(X[1]) = 1
    /\ Len(X[2]) = 2
    /\ Len(enc[1][1]) = 2
    /\ Len(co.outputs[1]) = NumLayers

\* the same conversion with the flag set the other way
OtherMode ==
    ConvertOutputs(
        [model EXCEPT !.all_layer_outputs =
            [present |-> TRUE, value |-> co.last_layer_only]], X, enc)
LastMode == IF co.last_layer_only THEN co ELSE OtherMode
AllMode == IF co.last_layer_only THEN OtherMode ELSE co

\* C4: on the same inputs and encoder output, last-layer mode returns one
\* entry per document, all-layers mode num_hidden_layers + 1, and the single
\* entry of last-layer mode is the last entry of all-layers mode.
C4_LastLayerSame ==
    co.status = "ok" =>
        /\ Len(LastMode.outputs) = Len(AllMode.outputs)
        /\ LastMode.last_layer_only /\ ~AllMode.last_layer_only
        /\ \A i \in 1..Len(X) :
            /\ Len(LastMode.outputs[i]) = 1
            /\ Len(AllMode.outputs[i]) = NumHiddenLayers + 1
            /\ LastMode.outputs[i][1] = AllMode.outputs[i][NumHiddenLayers + 1]

\* the pass ran in last-layer mode on a document with pieces
C4_Witness ==
    /\ co.status = "ok"
    /\ co.last_layer_only
    /\ Len(X) = 2
    /\ Len(X[2]) = 2
    /\ Len(co.outputs[2][1].data) = 2

\* C5: the backward closure of _convert_inputs returns, whatever gradient it
\* is given, one buffer per input sequence in input order, buffer i having
\* the length of sequence i and holding zeros only.
C5_ZeroGrads ==
    bi.status = "ok" =>
        /\ Len(bi.grads) = Len(X)
        /\ \A i \in 1..Len(X) :
            /\ Len(bi.grads[i]) = Len(X[i])
            /\ \A t \in 1..Len(bi.grads[i]) : bi.grads[i][t] = 0

\* the closure was called with a real gradient on sequences of two lengths
C5_Witness ==
    /\ bi.status = "ok"
    /\ bi.d_inputs = "grad_a"
    /\ Len(X) = 2
    /\ Len(X[1]) = 2
    /\ Len(X[2]) = 0

BackwardCalled == bo.status # "none"
RECURSIVE CountOf(_)
CountOf(nested) ==
    IF Len(nested) = 0 THEN 0 ELSE Len(Head(nested)) + CountOf(Tail(nested))
Yt == co.backward.Yt
CountsDiffer == CountOf(dYin) # CountOf(Yt)
SameNestedShape ==
    /\ Len(dYin) = Len(Yt)
    /\ \A d \in 1..Len(Yt) : Len(dYin[d]) = Len(Yt[d])
\* the gradient the caller made for document d, entry k sits next to the
\* forward output of document d, entry k
PairedByDocAndLayer ==
    \A j \in 1..Len(bo.grad_tensors) :
        LET g == bo.grad_tensors[j] IN
        /\ g.doc <= Len(Yt)
        /\ g.entry <= Len(Yt[g.doc])
        /\ bo.args[j] = Yt[g.doc][g.entry]
\* position of entry k of document d in document-major, layer-minor order
FlatPos(nested, d, k) == CountOf(SubSeq(nested, 1, d - 1)) + k
FlattenedInLockStep ==
    /\ bo.status = "ok"
    /\ Len(bo.args) = CountOf(Yt)
    /\ Len(bo.grad_tensors) = Len(bo.args)
    /\ \A d \in 1..Len(Yt) : \A k \in 1..Len(Yt[d]) :
          bo.args[FlatPos(Yt, d, k)] = Yt[d][k]
    /\ \A d \in 1..Len(dYin) : \A k \in 1..Len(dYin[d]) :
          bo.grad_tensors[FlatPos(dYin, d, k)] = Xp2Torch(dYin[d][k])
Rejected ==
    /\ bo.status = "AssertionError"
    /\ bo.args = <<>>
    /\ bo.grad_tensors = <<>>

\* C6 as stated: a differing flattened count is an assertion failure, and
\* otherwise gradient j is paired with forward output j of the same document
\* and the same layer.
C6_AsStated ==
    BackwardCalled =>
        IF CountsDiffer THEN Rejected
        ELSE FlattenedInLockStep /\ PairedByDocAndLayer

\* C6 amended: a differing flattened count is an assertion failure that
\* returns nothing; otherwise both nests are flattened document-major,
\* layer-minor and gradient j is paired with forward output j, which is the
\* same document and layer when the gradients have the nested shape of the
\* forward output (only the total count is compared).
C6_LockStep ==
    BackwardCalled =>
        IF CountsDiffer THEN Rejected
        ELSE /\ FlattenedInLockStep
             /\ SameNestedShape => PairedByDocAndLayer

\* gradients of the forward output's shape were paired layer by layer
C6_Witness ==
    /\ bo.status = "ok"
    /\ SameNestedShape
    /\ Len(Yt) = 2
    /\ Len(Yt[1]) = NumLayers
    /\ bo.args[NumLayers + 1].row = 2
    /\ bo.grad_tensors[NumLayers + 1].doc = 2

Composed == built.status = "ok"

\* C7: transformer_model_forward returns the sub-stage's output for the same
\* docs and is_train, and its backprop closure hands dY to the sub-stage's
\* backward closure exactly once and returns the empty list, whatever that
\* closure returned.
C7_ForwardAndEmptyBackprop ==
    /\ fw.status = "ok" =>
          fw.Y = Layer0Forward(built.model.layers[1], fw.docs, fw.is_train)
    /\ bp.status = "ok" =>
          /\ bp.layer_calls = <<bp.dY>>
          /\ bp.ret = <<>>

\* a training pass whose sub-stage returned a gradient for the pieces
C7_Witness ==
    /\ fw.status = "ok"
    /\ fw.is_train
    /\ bp.status = "ok"
    /\ bp.dY = "dY_b"
    /\ bp.layer_ret = <<"d_pieces">>

ListenerReplaced ==
    /\ built.status = "ok"
    /\ built'.status = "ok"
    /\ \/ built'.listener # built.listener
       \/ built'.listener_cfg # built.listener_cfg
       \/ built'.kind # built.kind

\* C8: replacing the listener or its configuration leaves the composed
\* model (nO, piece_encoder and transformer references) and the encoder with
\* its weights as they were.
C8_ReplaceKeepsUpstream ==
    [][ListenerReplaced => (built'.model = built.model /\ model' = model)]_vars

\* a listener was replaced on a model whose encoder has been trained
C8_Witness ==
    /\ built.status = "ok"
    /\ built.listener = "listener_b"
    /\ built.listener_cfg = "cfg_b"
    /\ model.weights = MaxTrain
    /\ built.model.nO = MaxWidth

\* C9 as stated: the paired structure is returned exactly when a listener
\* was supplied, binding the composed model and that listener; without a
\* listener the plain composed model is returned.
C9_AsStated ==
    built.status # "none" =>
        /\ built.status = "ok"
        /\ built.model.name = "transformer_model"
        /\ built.kind = "WrappedTransformerAndListener" <=> built.listener # "None"
        /\ built.kind = "transformer_model" <=> built.listener = "None"

\* C10 as stated: for both encoder variants the composed stage is built, with
\* nO equal to the output width of its transformer.
C10_AsStated ==
    built.status # "none" =>
        /\ built.status = "ok"
        /\ model.nO.set
        /\ built.model.nO = model.nO.value

\* ===================================================== claims C11 .. C15

\* C15: an empty batch never yields a padded tensor: the call fails while
\* the maximum length is computed, before the comparison with
\* max_model_seq_len and before any allocation, and the error is not the
\* sequence-too-long error.
C15_EmptyBatchFails ==
    (ConvertInputsCalled /\ Len(X) = 0) =>
        /\ ci.status = "ValueError"
        /\ ci.error = "max_of_empty"
        /\ ci.error # "sequence_too_long"
        /\ ~ci.compared
        /\ ~ci.allocated
        /\ ci.Xt = NoTensor
        /\ ~ci.backward.made
        /\ pc = "done"

\* the empty batch was handed to _convert_inputs
C15_Witness ==
    /\ ci.status = "ValueError"
    /\ Len(X) = 0
    /\ pc = "done"

\* C14 as stated: every wrapped encoder the factory returns carries the
\* _all_layer_outputs attribute with the value True from construction.
C14_AsStated ==
    built.status # "none" =>
        model.all_layer_outputs = [present |-> TRUE, value |-> TRUE]

\* ------------------------------------- closures kept across forward passes
\* the caller keeps the backward closure of the pass it has just run; what it
\* saw of that pass is the flattened count of the outputs it was given
KeepClosure ==
    /\ pc = "forwarded"
    /\ ~held.made
    /\ held' = [made |-> TRUE, Yt |-> co.backward.Yt,
                expected |-> Len(Flatten(co.outputs))]
    /\ UNCHANGED <<model, ops, pc, X, ci, enc, co, bo, dYin, bi, hb, scaler, ld>>
    /\ UNCHANGED glueVars

\* gradients for the kept closure: only their flattened count is compared
RetainedGradCounts == 0..(MaxBatch * NumLayers + 1)

ClosureCallLatest(closure, latest, dY) == ConvertForTorchBackward(latest, dY)

\* calling a closure: Yt is the local of the _convert_outputs call that
\* defined the closure (lines 764-772, 780), not that of the latest call
ClosureCall(closure, latest, dY) == ConvertForTorchBackward(closure, dY)

\* the kept closure is called between passes or after a later forward pass
CallRetainedBackward ==
    /\ pc \in {"idle", "forwarded"}
    /\ held.made
    /\ hb.status = "none"
    /\ \E c \in RetainedGradCounts :
         LET r == ClosureCall([made |-> TRUE, Yt |-> held.Yt], co.backward,
                              GradsOfShape(<<c>>))
         IN hb' = [status |-> r.status, args |-> r.args,
                   grad_tensors |-> r.grad_tensors, given |-> c]
    /\ pc' = "called"
    /\ UNCHANGED <<model, ops, X, ci, enc, co, bo, dYin, bi, held, scaler, ld>>
    /\ UNCHANGED glueVars

\* the kept closure and the pass it was called after are dropped
DropRetained ==
    /\ pc = "called"
    /\ pc' = "idle"
    /\ X' = <<>>
    /\ ci' = NoCI
    /\ enc' = <<>>
    /\ co' = NoCO
    /\ bo' = NoBO
    /\ dYin' = <<>>
    /\ bi' = NoBI
    /\ held' = NoHeld
    /\ hb' = NoHB
    /\ UNCHANGED <<model, ops, scaler, ld>>
    /\ UNCHANGED glueVars

\* closures are kept for training, which only the trainable encoder supports
InitRetain ==
    /\ InitBackward
    /\ model.name = "pytorch"
    /\ ops.device_type = "cpu"

NextRetain ==
    \/ \E b \in BOOLEAN : SetAllLayerOutputs(b)
    \/ CallConvertInputs(BlankBatches)
    \/ RunEncoder
    \/ CallConvertOutputs
    \/ KeepClosure
    \/ EndPass
    \/ CallRetainedBackward
    \/ DropRetained

SpecRetain == InitRetain /\ [][NextRetain]_vars

ConversionStep == pc = "encoded" /\ pc' # "encoded"
RetainedCallStep == hb.status = "none" /\ hb'.status # "none"

\* C13: the output mode of a pass and its last_layer_only marker follow the
\* flag as it is when that pass's outputs are converted, and a closure kept
\* from an earlier pass checks the gradient count against the outputs of its
\* own pass, whatever the flag is now and whatever pass ran since.
C13_OwnRecord ==
    [][ /\ (ConversionStep /\ model.all_layer_outputs.present) =>
             /\ co'.status = "ok"
             /\ co'.last_layer_only = ~model.all_layer_outputs.value
             /\ \A i \in 1..Len(co'.outputs) :
                   Len(co'.outputs[i]) =
                       IF model.all_layer_outputs.value THEN NumLayers ELSE 1
        /\ RetainedCallStep =>
             /\ hb'.status = "ok" <=> hb'.given = held.expected
             /\ hb'.status = "AssertionError" <=> hb'.given # held.expected
             /\ hb'.status = "ok" =>
                   /\ Len(hb'.args) = held.expected
                   /\ hb'.args = Flatten(held.Yt) ]_vars

\* a closure kept from an earlier pass accepted its own count after the flag
\* was switched off and a pass with another output count had run
C13_Witness ==
    /\ pc = "called"
    /\ hb.status = "ok"
    /\ hb.given = NumLayers
    /\ co.status = "ok"
    /\ co.last_layer_only
    /\ Len(X) = 1
    /\ Len(Flatten(co.outputs)) # hb.given

\* ------------------------------------ _pytorch_encoder: grad_scaler_config
OptionalFlags == {AbsentFlag} \cup {[has |-> TRUE, value |-> b] : b \in BOOLEAN}
OptionalNumbers == {Absent} \cup {[has |-> TRUE, value |-> n] : n \in 1..MaxScale}
ScalerConfigs ==
    [frozen : BOOLEAN, enabled : OptionalFlags, init_scale : OptionalNumbers,
     growth_interval : OptionalNumbers]

\* lines 677-679: a SimpleFrozenDict is replaced by a new, empty dict
Thaw(cfg) == IF cfg.frozen THEN EmptyConfig ELSE cfg

\* lines 681-682: enabled defaults to mixed_precision
WithEnabled(cfg, mixed_precision) ==
    IF ~cfg.enabled.has
    THEN [cfg EXCEPT !.enabled = [has |-> TRUE, value |-> mixed_precision]]
    ELSE cfg

\* the keyword arguments of PyTorchGradScaler(**grad_scaler_config), line 693
GradScalerKwargs(cfg, mixed_precision) == WithEnabled(Thaw(cfg), mixed_precision)

CallPytorchEncoder ==
    /\ scaler.status = "none"
    /\ \E w \in 1..MaxWidth, mixed_precision \in BOOLEAN, cfg \in ScalerConfigs :
        /\ model' = PytorchEncoder(w, MaxModelSeqLen, model.padding_idx)
        /\ scaler' = [status |-> "ok", given |-> cfg,
                      mixed_precision |-> mixed_precision,
                      kwargs |-> GradScalerKwargs(cfg, mixed_precision)]
    /\ UNCHANGED <<ops, pc, X, ci, enc, co, bo, dYin, bi, held, hb, ld>>
    /\ UNCHANGED glueVars

NextScaler == CallPytorchEncoder

SpecScaler == InitGlue /\ [][NextScaler]_vars

\* C12 as stated: whatever mapping the caller passes, frozen or plain, every
\* key it holds reaches the gradient scaler unchanged; enabled is added as
\* mixed_precision only when the caller left it out.
C12_AsStated ==
    scaler.status = "ok" =>
        /\ scaler.kwargs.init_scale = scaler.given.init_scale
        /\ scaler.kwargs.growth_interval = scaler.given.growth_interval
        /\ scaler.given.enabled.has => scaler.kwargs.enabled = scaler.given.enabled
        /\ ~scaler.given.enabled.has =>
              scaler.kwargs.enabled = [has |-> TRUE, value |-> scaler.mixed_precision]

\* --------------------------------------- build_pytorch_checkpoint_loader_v1
\* the checkpoint read from `path`: whether its keys can be remapped, and how
\* each remapped entry compares with the encoder's parameter of that name
EntryKinds == {"match", "shape_mismatch", "missing"}
Checkpoints == [remap_ok : BOOLEAN, entries : [1..NumParams -> EntryKinds]]
Devices == {"cpu", "cuda"}
SampleDocs == {"None", "docs"}

\* encoder.load_state_dict(params): every matching entry is copied into its
\* parameter, the mismatches are collected, and the error is raised after
\* the copying
LoadStateDict(weights, entries) ==
    [ weights |-> [k \in 1..NumParams |->
                      IF entries[k] = "match" THEN "checkpoint" ELSE weights[k]],
      failed |-> \E k \in 1..NumParams : entries[k] # "match" ]

\* load(model, X, Y), lines 805-812
Load(ckpt, weights, device) ==
    IF ~ckpt.remap_ok
    THEN [NoLoad EXCEPT !.status = "error", !.error = "convert",
                        !.steps = <<"torch.load", "convert">>,
                        !.weights = weights]
    ELSE LET loaded == LoadStateDict(weights, ckpt.entries) IN
         IF loaded.failed
         THEN [NoLoad EXCEPT !.status = "error", !.error = "load_state_dict",
                             !.steps = <<"torch.load", "convert",
                                         "load_state_dict">>,
                             !.weights = loaded.weights]
         ELSE [NoLoad EXCEPT !.status = "ok",
                             !.steps = <<"torch.load", "convert",
                                         "load_state_dict", "to">>,
                             !.returned = TRUE,
                             !.device = device,
                             !.weights = loaded.weights]

\* the callback runs on a trainable encoder (model.shims[0]._model)
CallLoad ==
    /\ ld.status = "none"
    /\ model.name = "pytorch"
    /\ \E ckpt \in Checkpoints, device \in Devices, x \in SampleDocs,
          y \in SampleDocs :
          ld' = [Load(ckpt, ld.weights, device) EXCEPT
                    !.ckpt = ckpt, !.target = device, !.X = x, !.Y = y]
    /\ UNCHANGED <<held, hb, scaler>>
    /\ UNCHANGED convVars
    /\ UNCHANGED glueVars

NextLoader == CallLoad

SpecLoader == InitGlue /\ [][NextLoader]_vars

\* C11 as stated: the steps run in the order load, remap, load into the
\* encoder, move to the device, and the model is returned; when the remapping
\* or the loading fails no later step runs, the model is not returned and the
\* encoder's weights are not partially updated.
C11_AsStated ==
    ld.status # "none" =>
        IF ld.status = "ok"
        THEN /\ ld.steps = <<"torch.load", "convert", "load_state_dict", "to">>
             /\ ld.returned
             /\ ld.weights = [k \in 1..NumParams |-> "checkpoint"]
        ELSE /\ ~ld.returned
             /\ ld.device = "none"
             /\ ld.steps \in {<<"torch.load", "convert">>,
                              <<"torch.load", "convert", "load_state_dict">>}
             /\ ld.weights = InitialWeights

====
